---- MODULE Spec2Model ----
(***************************************************************************)
(* Model of pi_tv_remote.cec_adapter.CECAdapter: the lifecycle (init,      *)
(* cleanup), the outbound sender (send_command and the intents built on    *)
(* it), the two callback registries and the two dispatch entry points      *)
(* (handle_keypress, handle_command).                                      *)
(***************************************************************************)
EXTENDS Integers, Sequences, FiniteSets, TLC

VARIABLES
    initialized,        \* self.initialized
    config,             \* self.config (physical_address)
    cec,                \* which optional primitives the transport module exposes
    registered,         \* entry points registered with the transport, per event class
    callbacks,          \* self.callbacks: button code -> list of handlers
    command_callbacks,  \* self.command_callbacks: opcode -> list of handlers
    last,               \* the most recent operation: arguments, outcome, transport calls
    everInit,           \* history: some init() has returned True
    cleaned,            \* history: cleanup() has returned and no init() was called since
    pending,            \* history: the latest register/unregister pair on an empty key
    closed,             \* history: some cleanup() has returned on an initialized adapter
    failedInit,         \* history: the latest init() found initialized false and its
                        \* cec.init() faulted
    dispatching,        \* the transport's context: its position in a dispatch loop
    running,            \* the context inside run(): its position in the idle loop
    clock,              \* time.time(), in units of 0.05 s
    inflight,           \* the application's contexts inside init() and inside the hold
                        \* of send_remote_button(): what each has done so far
    class_constants,    \* the class attributes RemoteButton.UP and CECCommand.STANDBY
    constructed         \* history: how many adapters were constructed, and the
                        \* transport module the first one was constructed with

vars == <<initialized, config, cec, registered, callbacks, command_callbacks,
          last, everInit, cleaned, pending, closed, failedInit,
          dispatching, running, clock, inflight, class_constants, constructed>>

\* the state shared by all adapters of the process
classState == <<class_constants, constructed>>

\* what an operation that runs to completion in its caller's context leaves alone
contexts == <<dispatching, running, clock, inflight, classState>>

----------------------------------------------------------------------------
\* Bounds of the model

MaxReg == 2

MaxLen == 3

MaxClock == 12

MaxAdapters == 3

----------------------------------------------------------------------------
\* Program constants

CECDEVICE_TV == 0

CECDEVICE_BROADCAST == 15

EVENT_KEYPRESS == 2

EVENT_COMMAND == 4

IMAGE_VIEW_ON == 4

STANDBY == 54

GIVE_DEVICE_POWER_STATUS == 143

ACTIVE_SOURCE == 130

GIVE_DEVICE_VENDOR_ID == 140

USER_CONTROL_PRESSED == 68

USER_CONTROL_RELEASED == 69

UP == 1

VOLUME_UP == 65

PLAY == 68

STOP == 69

----------------------------------------------------------------------------
\* Input domains

Opcodes == {IMAGE_VIEW_ON, USER_CONTROL_PRESSED}

Destinations == {CECDEVICE_TV, CECDEVICE_BROADCAST}

ParamChoices == {<<>>, <<1>>}

Buttons == {UP, VOLUME_UP}

\* hold_time in tenths of a second (0.2 s is the default)
HoldTimes == {0, 2}

\* "1.0.0.0" (the default), "2.f.a.3", and "1.0.0", whose odd digit count makes
\* bytes.fromhex raise
PhysicalAddresses == { <<"1", ".", "0", ".", "0", ".", "0">>,
                       <<"2", ".", "f", ".", "a", ".", "3">>,
                       <<"1", ".", "0", ".", "0">> }

\* time in units of 0.05 s: the poll interval of run(), time.sleep(0.1)
Poll == 2

\* by how much a sleep may overrun
Oversleep == {0, 1}

\* finite max_duration arguments of run(): 0 s, 0.15 s, 0.2 s
MaxDurations == {0, 3, 4}

LongestDuration == CHOOSE d \in MaxDurations : \A e \in MaxDurations : e <= d

Transports == [add_callback : BOOLEAN, remove_callback : BOOLEAN, close : BOOLEAN,
               shutdown : BOOLEAN, set_active_source : BOOLEAN]

----------------------------------------------------------------------------
\* Button codes and opcodes as class attributes, resolved from the transport module

\* the names the model follows: one button code with two candidate names in the
\* transport module, one opcode with one
OurNames == {"UP", "STANDBY"}

CandidateNames(our_name) ==
    IF our_name = "UP" THEN <<"CEC_USER_CONTROL_CODE_UP", "CEC_USER_CONTROL_UP">>
    ELSE <<"CEC_OPCODE_STANDBY">>

ModuleNames == {"CEC_USER_CONTROL_CODE_UP", "CEC_USER_CONTROL_UP", "CEC_OPCODE_STANDBY"}

\* values a transport module may give to a name it exposes
ModuleValues == {UP, 2, STANDBY}

\* the constants a transport module exposes: a function on the names it has
Modules == UNION {[N -> ModuleValues] : N \in SUBSET ModuleNames}

\* a module that exposes none of the names
NoConstants == [n \in {} |-> UP]

\* the values in the class bodies of RemoteButton and CECCommand
BuiltInConstants == [UP |-> UP, STANDBY |-> STANDBY]

\* RemoteButton.update_from_module and CECCommand.update_from_module: setattr of
\* the first candidate name the module has, no assignment when it has none
update_from_module(attrs, module) ==
    [our_name \in OurNames |->
        LET names == CandidateNames(our_name)
            found == {i \in 1..Len(names) : names[i] \in DOMAIN module}
        IN  IF found = {} THEN attrs[our_name]
            ELSE module[names[CHOOSE i \in found : \A j \in found : i <= j]]]

----------------------------------------------------------------------------
\* Outcomes and transport calls

Call(prim, args, fault) == [prim |-> prim, args |-> args, fault |-> fault]

Outcome(result, raised, trace) == [result |-> result, raised |-> raised, trace |-> trace]

Transmits(trace) == SelectSeq(trace, LAMBDA c : c.prim = "transmit")

TransportCalls(trace) == SelectSeq(trace, LAMBDA c : c.prim # "sleep")

\* the snapshot of a freshly constructed adapter
Pre0 == [initialized |-> FALSE, everInit |-> FALSE, cleaned |-> FALSE,
         closed |-> FALSE, failedInit |-> FALSE,
         registered |-> [key |-> 0, command |-> 0]]

Pre == [initialized |-> initialized, everInit |-> everInit, cleaned |-> cleaned,
        closed |-> closed, failedInit |-> failedInit, registered |-> registered]

Record(op, args, out) ==
    [op |-> op, args |-> args, pre |-> Pre,
     result |-> out.result, raised |-> out.raised, trace |-> out.trace]

HexDigits == <<"0", "1", "2", "3", "4", "5", "6", "7", "8", "9",
               "a", "b", "c", "d", "e", "f">>

HexVal(ch) == (CHOOSE i \in 1..16 : HexDigits[i] = ch) - 1

FromHex_low_nibble_first(addr) ==
    LET digits == SelectSeq(addr, LAMBDA ch : ch # ".")
    IN  IF Len(digits) % 2 # 0
          THEN [ok |-> FALSE, bytes |-> <<>>]
          ELSE [ok |-> TRUE,
                bytes |-> [i \in 1..(Len(digits) \div 2) |->
                             HexVal(digits[2 * i - 1]) + 16 * HexVal(digits[2 * i])]]

\* bytes.fromhex(physical_address.replace(".", ""))
FromHex(addr) ==
    LET digits == SelectSeq(addr, LAMBDA ch : ch # ".")
    IN  IF Len(digits) % 2 # 0
          THEN [ok |-> FALSE, bytes |-> <<>>]
          ELSE [ok |-> TRUE,
                bytes |-> [i \in 1..(Len(digits) \div 2) |->
                             16 * HexVal(digits[2 * i - 1]) + HexVal(digits[2 * i])]]

----------------------------------------------------------------------------
\* Outbound sender

send_command_unchecked(opcode, destination, parameters, fault) ==
    Outcome(IF fault THEN "False" ELSE "True", FALSE,
            <<Call("transmit", <<destination, opcode, parameters>>, fault)>>)

send_command_unguarded(opcode, destination, parameters, fault) ==
    IF ~initialized
      THEN Outcome("False", FALSE, <<>>)
      ELSE Outcome(IF fault THEN "None" ELSE "True", fault,
                   <<Call("transmit", <<destination, opcode, parameters>>, fault)>>)

send_command(opcode, destination, parameters, fault) ==
    IF ~initialized
      THEN Outcome("False", FALSE, <<>>)
      ELSE Outcome(IF fault THEN "False" ELSE "True", FALSE,
                   <<Call("transmit", <<destination, opcode, parameters>>, fault)>>)

\* the call of the transport's set_active_source convenience; returned: what it
\* did, "truthy", "falsy" or "fault"
ConvenienceCall(conv) ==
    [prim |-> "set_active_source", args |-> <<>>, fault |-> conv = "fault",
     returned |-> conv]

set_active_source_no_fallback(conv, fault) ==
    LET first == IF cec.set_active_source THEN <<ConvenienceCall(conv)>> ELSE <<>>
        addr  == FromHex(config.physical_address)
        sent  == send_command(ACTIVE_SOURCE, CECDEVICE_BROADCAST, addr.bytes, fault)
    IN  IF cec.set_active_source
          THEN Outcome(IF conv = "truthy" THEN "True" ELSE "False", FALSE, first)
        ELSE IF ~addr.ok THEN Outcome("False", FALSE, first)
        ELSE Outcome(sent.result, FALSE, first \o sent.trace)

\* conv: what the transport's set_active_source convenience does when called
set_active_source(conv, fault) ==
    LET first == IF cec.set_active_source THEN <<ConvenienceCall(conv)>> ELSE <<>>
        addr  == FromHex(config.physical_address)
        sent  == send_command(ACTIVE_SOURCE, CECDEVICE_BROADCAST, addr.bytes, fault)
    IN  IF cec.set_active_source /\ conv = "fault" THEN Outcome("False", FALSE, first)
        ELSE IF cec.set_active_source /\ conv = "truthy" THEN Outcome("True", FALSE, first)
        ELSE IF ~addr.ok THEN Outcome("False", FALSE, first)
        ELSE IF sent.raised THEN Outcome("False", FALSE, first \o sent.trace)
        ELSE Outcome(sent.result, FALSE, first \o sent.trace)

send_release_with_code(button_code, fault) ==
    IF ~initialized
      THEN Outcome("False", FALSE, <<>>)
      ELSE send_command(USER_CONTROL_RELEASED, CECDEVICE_TV, <<button_code>>, fault)

send_release(button_code, fault) ==
    IF ~initialized
      THEN Outcome("False", FALSE, <<>>)
      ELSE send_command(USER_CONTROL_RELEASED, CECDEVICE_TV, <<>>, fault)

send_remote_button_always_release(button_code, pressed, hold_time, f) ==
    IF ~initialized THEN Outcome("False", FALSE, <<>>)
    ELSE IF pressed
      THEN LET press == send_command(USER_CONTROL_PRESSED, CECDEVICE_TV, <<button_code>>, f[1])
               rel   == send_release(button_code, f[2])
           IN  IF press.raised THEN press
               ELSE IF hold_time > 0
                 THEN Outcome(IF press.result = "False" THEN "False" ELSE rel.result,
                              rel.raised,
                              press.trace \o <<Call("sleep", <<hold_time>>, FALSE)>> \o rel.trace)
               ELSE press
      ELSE send_release(button_code, f[1])

send_remote_button_swapped(button_code, pressed, hold_time, f) ==
    IF ~initialized THEN Outcome("False", FALSE, <<>>)
    ELSE IF pressed
      THEN LET press == send_command(USER_CONTROL_RELEASED, CECDEVICE_TV, <<>>, f[1])
               rel   == send_command(USER_CONTROL_PRESSED, CECDEVICE_TV, <<button_code>>, f[2])
           IN  IF press.raised \/ press.result = "False" THEN press
               ELSE IF hold_time > 0
                 THEN Outcome(rel.result, rel.raised,
                              press.trace \o <<Call("sleep", <<hold_time>>, FALSE)>> \o rel.trace)
               ELSE Outcome("True", FALSE, press.trace)
      ELSE send_release(button_code, f[1])

send_remote_button_release_ignored(button_code, pressed, hold_time, f) ==
    IF ~initialized THEN Outcome("False", FALSE, <<>>)
    ELSE IF pressed
      THEN LET press == send_command(USER_CONTROL_PRESSED, CECDEVICE_TV, <<button_code>>, f[1])
               rel   == send_release(button_code, f[2])
           IN  IF press.raised \/ press.result = "False" THEN press
               ELSE IF hold_time > 0
                 THEN Outcome("True", rel.raised,
                              press.trace \o <<Call("sleep", <<hold_time>>, FALSE)>> \o rel.trace)
               ELSE Outcome("True", FALSE, press.trace)
      ELSE send_release(button_code, f[1])

send_remote_button(button_code, pressed, hold_time, f) ==
    IF ~initialized THEN Outcome("False", FALSE, <<>>)
    ELSE IF pressed
      THEN LET press == send_command(USER_CONTROL_PRESSED, CECDEVICE_TV, <<button_code>>, f[1])
               rel   == send_release(button_code, f[2])
           IN  IF press.raised \/ press.result = "False" THEN press
               ELSE IF hold_time > 0
                 THEN Outcome(rel.result, rel.raised,
                              press.trace \o <<Call("sleep", <<hold_time>>, FALSE)>> \o rel.trace)
               ELSE Outcome("True", FALSE, press.trace)
      ELSE send_release(button_code, f[1])

----------------------------------------------------------------------------
\* Lifecycle

register_event_handlers_key_only(f) ==
    IF ~cec.add_callback THEN [raised |-> FALSE, trace |-> <<>>, reg |-> registered]
    ELSE [raised |-> f[2],
          trace |-> <<Call("add_callback", <<"handle_keypress", EVENT_KEYPRESS>>, f[2])>>,
          reg |-> IF f[2] THEN registered ELSE [registered EXCEPT !.key = @ + 1]]

\* f[1]: cec.init faults; f[2], f[3]: the two add_callback calls fault
register_event_handlers(f) ==
    IF ~cec.add_callback THEN [raised |-> FALSE, trace |-> <<>>, reg |-> registered]
    ELSE IF f[2]
      THEN [raised |-> TRUE,
            trace |-> <<Call("add_callback", <<"handle_keypress", EVENT_KEYPRESS>>, TRUE)>>,
            reg |-> registered]
    ELSE IF f[3]
      THEN [raised |-> TRUE,
            trace |-> <<Call("add_callback", <<"handle_keypress", EVENT_KEYPRESS>>, FALSE),
                        Call("add_callback", <<"handle_command", EVENT_COMMAND>>, TRUE)>>,
            reg |-> [registered EXCEPT !.key = @ + 1]]
    ELSE [raised |-> FALSE,
          trace |-> <<Call("add_callback", <<"handle_keypress", EVENT_KEYPRESS>>, FALSE),
                      Call("add_callback", <<"handle_command", EVENT_COMMAND>>, FALSE)>>,
          reg |-> [key |-> registered.key + 1, command |-> registered.command + 1]]

unregister_event_handlers_key_only(f) ==
    LET dec(n) == IF n > 0 THEN n - 1 ELSE 0
    IN  IF ~cec.remove_callback THEN [raised |-> FALSE, trace |-> <<>>, reg |-> registered]
        ELSE [raised |-> f[1],
              trace |-> <<Call("remove_callback", <<"handle_keypress", EVENT_KEYPRESS>>, f[1])>>,
              reg |-> IF f[1] THEN registered ELSE [registered EXCEPT !.key = dec(@)]]

\* f[1], f[2]: the two remove_callback calls fault
unregister_event_handlers(f) ==
    LET dec(n) == IF n > 0 THEN n - 1 ELSE 0
    IN  IF ~cec.remove_callback THEN [raised |-> FALSE, trace |-> <<>>, reg |-> registered]
        ELSE IF f[1]
          THEN [raised |-> TRUE,
                trace |-> <<Call("remove_callback", <<"handle_keypress", EVENT_KEYPRESS>>, TRUE)>>,
                reg |-> registered]
        ELSE IF f[2]
          THEN [raised |-> TRUE,
                trace |-> <<Call("remove_callback", <<"handle_keypress", EVENT_KEYPRESS>>, FALSE),
                            Call("remove_callback", <<"handle_command", EVENT_COMMAND>>, TRUE)>>,
                reg |-> [registered EXCEPT !.key = dec(@)]]
        ELSE [raised |-> FALSE,
              trace |-> <<Call("remove_callback", <<"handle_keypress", EVENT_KEYPRESS>>, FALSE),
                          Call("remove_callback", <<"handle_command", EVENT_COMMAND>>, FALSE)>>,
              reg |-> [key |-> dec(registered.key), command |-> dec(registered.command)]]

try_init_fault_ignored(f) ==
    LET reg == register_event_handlers(f)
    IN  [ok |-> ~reg.raised, trace |-> <<Call("init", <<>>, f[1])>> \o reg.trace,
         reg |-> reg.reg]

\* the try block of init(): cec.init(), then register_event_handlers()
try_init(f) ==
    LET t0  == <<Call("init", <<>>, f[1])>>
        reg == register_event_handlers(f)
    IN  IF f[1] THEN [ok |-> FALSE, trace |-> t0, reg |-> registered]
        ELSE [ok |-> ~reg.raised, trace |-> t0 \o reg.trace, reg |-> reg.reg]

init ==
    \E f \in [1..3 -> BOOLEAN] :
        LET try == try_init(f)
        IN  /\ cec.add_callback => (registered.key < MaxReg /\ registered.command < MaxReg)
            /\ initialized' = IF try.ok THEN TRUE ELSE initialized
            /\ registered' = try.reg
            /\ everInit' = (everInit \/ try.ok)
            /\ cleaned' = FALSE
            /\ failedInit' = (~initialized /\ try.trace[1].fault)
            /\ last' = Record("init", <<>>,
                              Outcome(IF try.ok THEN "True" ELSE "False", FALSE, try.trace))
            /\ UNCHANGED <<config, cec, callbacks, command_callbacks, pending, closed,
                           contexts>>

cleanup_unconditional ==
    \E f \in [1..3 -> BOOLEAN] :
        LET unreg == unregister_event_handlers(f)
            shut  == IF cec.close THEN <<Call("close", <<>>, f[3])>>
                     ELSE IF cec.shutdown THEN <<Call("shutdown", <<>>, f[3])>>
                     ELSE <<>>
            shutdownFaulted == shut # <<>> /\ f[3]
        IN  /\ IF unreg.raised
                 THEN /\ last' = Record("cleanup", <<>>,
                                        Outcome("None", TRUE, unreg.trace))
                      /\ registered' = unreg.reg
                      /\ UNCHANGED <<initialized, cleaned, closed>>
                 ELSE /\ last' = Record("cleanup", <<>>,
                                        Outcome("None", FALSE, unreg.trace \o shut))
                      /\ registered' = unreg.reg
                      /\ initialized' = IF shutdownFaulted THEN FALSE ELSE initialized
                      /\ cleaned' = TRUE
                      /\ closed' = (closed \/ initialized)
            /\ UNCHANGED <<config, cec, callbacks, command_callbacks, everInit, pending,
                           failedInit, contexts>>

\* f[3]: the shutdown primitive (close or shutdown) faults
cleanup_close_then_shutdown ==
    \E f \in [1..3 -> BOOLEAN] :
        LET unreg == unregister_event_handlers(f)
            shut  == IF cec.close
                       THEN IF f[3] /\ cec.shutdown
                              THEN <<Call("close", <<>>, TRUE), Call("shutdown", <<>>, FALSE)>>
                              ELSE <<Call("close", <<>>, f[3])>>
                     ELSE IF cec.shutdown THEN <<Call("shutdown", <<>>, f[3])>>
                     ELSE <<>>
            shutdownFaulted == shut # <<>> /\ shut[Len(shut)].fault
        IN  /\ IF ~initialized
                 THEN /\ last' = Record("cleanup", <<>>, Outcome("None", FALSE, <<>>))
                      /\ cleaned' = TRUE
                      /\ UNCHANGED <<initialized, registered, closed>>
                 ELSE IF unreg.raised
                   THEN /\ last' = Record("cleanup", <<>>,
                                          Outcome("None", TRUE, unreg.trace))
                        /\ registered' = unreg.reg
                        /\ UNCHANGED <<initialized, cleaned, closed>>
                   ELSE /\ last' = Record("cleanup", <<>>,
                                          Outcome("None", FALSE, unreg.trace \o shut))
                        /\ registered' = unreg.reg
                        /\ initialized' = IF shutdownFaulted THEN FALSE ELSE initialized
                        /\ cleaned' = TRUE
                        /\ closed' = TRUE
            /\ UNCHANGED <<config, cec, callbacks, command_callbacks, everInit, pending,
                           failedInit, contexts>>

cleanup ==
    \E f \in [1..3 -> BOOLEAN] :
        LET unreg == unregister_event_handlers(f)
            shut  == IF cec.close THEN <<Call("close", <<>>, f[3])>>
                     ELSE IF cec.shutdown THEN <<Call("shutdown", <<>>, f[3])>>
                     ELSE <<>>
            shutdownFaulted == shut # <<>> /\ f[3]
        IN  /\ IF ~initialized
                 THEN /\ last' = Record("cleanup", <<>>, Outcome("None", FALSE, <<>>))
                      /\ cleaned' = TRUE
                      /\ UNCHANGED <<initialized, registered, closed>>
                 ELSE IF unreg.raised
                   THEN /\ last' = Record("cleanup", <<>>,
                                          Outcome("None", TRUE, unreg.trace))
                        /\ registered' = unreg.reg
                        /\ UNCHANGED <<initialized, cleaned, closed>>
                   ELSE /\ last' = Record("cleanup", <<>>,
                                          Outcome("None", FALSE, unreg.trace \o shut))
                        /\ registered' = unreg.reg
                        /\ initialized' = IF shutdownFaulted THEN FALSE ELSE initialized
                        /\ cleaned' = TRUE
                        /\ closed' = TRUE
            /\ UNCHANGED <<config, cec, callbacks, command_callbacks, everInit, pending,
                           failedInit, contexts>>

----------------------------------------------------------------------------
\* Sender operations as actions

senderFrame == <<initialized, config, cec, registered, callbacks, command_callbacks,
                 everInit, cleaned, pending, closed, failedInit, contexts>>

SendCommand ==
    \E opcode \in Opcodes, destination \in Destinations, parameters \in ParamChoices,
       fault \in BOOLEAN :
        /\ last' = Record("send_command", <<opcode, destination, parameters>>,
             send_command(opcode, destination, parameters, fault))
        /\ UNCHANGED senderFrame

power_on_tv ==
    \E fault \in BOOLEAN :
        /\ last' = Record("power_on_tv", <<>>, send_command(IMAGE_VIEW_ON, CECDEVICE_TV, <<>>, fault))
        /\ UNCHANGED senderFrame

standby_tv ==
    \E fault \in BOOLEAN :
        /\ last' = Record("standby_tv", <<>>,
             send_command(class_constants.STANDBY, CECDEVICE_TV, <<>>, fault))
        /\ UNCHANGED senderFrame

request_power_status ==
    \E fault \in BOOLEAN :
        /\ last' = Record("request_power_status", <<>>,
             send_command(GIVE_DEVICE_POWER_STATUS, CECDEVICE_TV, <<>>, fault))
        /\ UNCHANGED senderFrame

request_vendor_id_power_status ==
    \E fault \in BOOLEAN :
        /\ last' = Record("request_vendor_id", <<>>,
             send_command(GIVE_DEVICE_POWER_STATUS, CECDEVICE_TV, <<>>, fault))
        /\ UNCHANGED senderFrame

request_vendor_id ==
    \E fault \in BOOLEAN :
        /\ last' = Record("request_vendor_id", <<>>,
             send_command(GIVE_DEVICE_VENDOR_ID, CECDEVICE_TV, <<>>, fault))
        /\ UNCHANGED senderFrame

SetActiveSource ==
    \E conv \in {"fault", "truthy", "falsy"}, fault \in BOOLEAN :
        /\ last' = Record("set_active_source", <<>>, set_active_source(conv, fault))
        /\ UNCHANGED senderFrame

SendRemoteButton ==
    \E button_code \in Buttons, pressed \in BOOLEAN, hold_time \in HoldTimes,
       f \in [1..2 -> BOOLEAN] :
        /\ last' = Record("send_remote_button", <<button_code, pressed, hold_time>>,
             send_remote_button(button_code, pressed, hold_time, f))
        /\ UNCHANGED senderFrame

----------------------------------------------------------------------------
\* Callback registries

Handlers == {"h1", "h2"}

\* button codes that handlers are registered under, and button codes of key events
ButtonKeys == {PLAY}

KeyCodes == {PLAY, STOP}

CommandKeys == {USER_CONTROL_PRESSED, USER_CONTROL_RELEASED}

Durations == {5}

Range(s) == {s[i] : i \in 1..Len(s)}

list_remove_last(s, h) ==
    LET i == CHOOSE n \in 1..Len(s) : s[n] = h /\ \A m \in (n + 1)..Len(s) : s[m] # h
    IN  SubSeq(s, 1, i - 1) \o SubSeq(s, i + 1, Len(s))

\* list.remove(x): drops the first occurrence
list_remove(s, h) ==
    LET i == CHOOSE n \in 1..Len(s) : s[n] = h /\ \A m \in 1..(n - 1) : s[m] # h
    IN  SubSeq(s, 1, i - 1) \o SubSeq(s, i + 1, Len(s))

dict_add_prepend(d, k, h) ==
    [x \in (DOMAIN d) \cup {k} |->
        IF x = k THEN (IF k \in DOMAIN d THEN <<h>> \o d[k] ELSE <<h>>) ELSE d[x]]

dict_add(d, k, h) ==
    [x \in (DOMAIN d) \cup {k} |->
        IF x = k THEN (IF k \in DOMAIN d THEN Append(d[k], h) ELSE <<h>>) ELSE d[x]]

dict_remove_forgotten(d, k, h) == d

dict_remove(d, k, h) ==
    IF k \in DOMAIN d /\ h \in Range(d[k])
      THEN [d EXCEPT ![k] = list_remove(d[k], h)]
      ELSE d

Lookup(d, k) == IF k \in DOMAIN d THEN d[k] ELSE <<>>

SumLen(d) ==
    LET RECURSIVE sum(_)
        sum(S) == IF S = {} THEN 0
                  ELSE LET x == CHOOSE y \in S : TRUE IN Len(d[x]) + sum(S \ {x})
    IN  sum(DOMAIN d)

TotalRegistered == SumLen(callbacks) + SumLen(command_callbacks)

NoPending == [stage |-> "none", reg |-> "", key |-> 0, handler |-> ""]

\* the register/unregister history kept in pending
PendingAfterAdd(reg, d, k, h) ==
    IF Lookup(d, k) = <<>>
      THEN [stage |-> "added", reg |-> reg, key |-> k, handler |-> h]
      ELSE IF pending.reg = reg /\ pending.key = k THEN NoPending ELSE pending

PendingAfterRemove(reg, k, h) ==
    IF pending = [stage |-> "added", reg |-> reg, key |-> k, handler |-> h]
      THEN [pending EXCEPT !.stage = "removed"]
      ELSE IF pending.reg = reg /\ pending.key = k THEN NoPending ELSE pending

\* before: both registries as the operation found them
RegistryRecord(op, k, h) ==
    [op |-> op, args |-> <<k, h>>, pre |-> Pre, result |-> "None", raised |-> FALSE,
     trace |-> <<>>,
     before |-> [callbacks |-> callbacks, command_callbacks |-> command_callbacks]]

add_button_callback ==
    \E button_code \in ButtonKeys, callback \in Handlers :
        /\ TotalRegistered < MaxLen
        /\ callbacks' = dict_add(callbacks, button_code, callback)
        /\ pending' = PendingAfterAdd("button", callbacks, button_code, callback)
        /\ last' = RegistryRecord("add_button_callback", button_code, callback)
        /\ UNCHANGED <<initialized, config, cec, registered, command_callbacks,
                       everInit, cleaned, closed, failedInit, contexts>>

remove_button_callback ==
    \E button_code \in ButtonKeys, callback \in Handlers :
        /\ callbacks' = dict_remove(callbacks, button_code, callback)
        /\ pending' = PendingAfterRemove("button", button_code, callback)
        /\ last' = RegistryRecord("remove_button_callback", button_code, callback)
        /\ UNCHANGED <<initialized, config, cec, registered, command_callbacks,
                       everInit, cleaned, closed, failedInit, contexts>>

add_command_callback ==
    \E opcode \in CommandKeys, callback \in Handlers :
        /\ TotalRegistered < MaxLen
        /\ command_callbacks' = dict_add(command_callbacks, opcode, callback)
        /\ pending' = PendingAfterAdd("command", command_callbacks, opcode, callback)
        /\ last' = RegistryRecord("add_command_callback", opcode, callback)
        /\ UNCHANGED <<initialized, config, cec, registered, callbacks,
                       everInit, cleaned, closed, failedInit, contexts>>

remove_command_callback ==
    \E opcode \in CommandKeys, callback \in Handlers :
        /\ command_callbacks' = dict_remove(command_callbacks, opcode, callback)
        /\ pending' = PendingAfterRemove("command", opcode, callback)
        /\ last' = RegistryRecord("remove_command_callback", opcode, callback)
        /\ UNCHANGED <<initialized, config, cec, registered, callbacks,
                       everInit, cleaned, closed, failedInit, contexts>>

----------------------------------------------------------------------------
\* Raw events as the transport hands them to handle_command(cmd, *args)

FieldNames == {"opcode", "parameters", "initiator", "destination"}

PyValue(kind, val, bytes, has, c) ==
    [kind |-> kind, val |-> val, bytes |-> bytes, has |-> has,
     opcode |-> c.opcode, parameters |-> c.parameters,
     initiator |-> c.initiator, destination |-> c.destination]

NoContent == [opcode |-> 0, hasParams |-> FALSE, parameters |-> <<>>,
              initiator |-> 0, destination |-> 0]

PyNone == PyValue("none", 0, <<>>, {}, NoContent)

PyInt(n) == PyValue("int", n, <<>>, {}, NoContent)

PyBytes(b) == PyValue("bytes", 0, b, {}, NoContent)

Fields(c) == IF c.hasParams THEN FieldNames ELSE FieldNames \ {"parameters"}

PyObject(c) == PyValue("object", 0, <<>>, Fields(c), c)

PyDict(c) == PyValue("dict", 0, <<>>, Fields(c), c)

Contents ==
    {[opcode |-> o, hasParams |-> p[1], parameters |-> p[2],
      initiator |-> CECDEVICE_TV, destination |-> 1] :
        o \in CommandKeys, p \in {<<FALSE, <<>> >>, <<TRUE, <<1>> >>}}

Shapes == {"object", "mapping", "sentinel", "positional"}

RawEvent(shape, c) ==
    CASE shape = "object"     -> [cmd |-> PyObject(c), args |-> <<>>]
      [] shape = "mapping"    -> [cmd |-> PyDict(c), args |-> <<>>]
      [] shape = "sentinel"   -> [cmd |-> PyInt(EVENT_COMMAND), args |-> <<PyDict(c)>>]
      [] shape = "positional" ->
            [cmd |-> PyInt(EVENT_COMMAND),
             args |-> <<PyInt(c.initiator), PyInt(c.destination), PyInt(c.opcode)>>
                      \o (IF c.hasParams THEN <<PyBytes(c.parameters)>> ELSE <<>>)]

\* events of none of the four shapes
Unrecognized ==
    { [cmd |-> PyNone, args |-> <<>>],
      [cmd |-> PyInt(USER_CONTROL_PRESSED), args |-> <<>>],
      [cmd |-> PyInt(EVENT_COMMAND),
       args |-> <<PyInt(CECDEVICE_TV), PyInt(USER_CONTROL_PRESSED)>>] }

Events ==
    {[shape |-> sh, content |-> c, raw |-> RawEvent(sh, c)] : sh \in Shapes, c \in Contents}
    \cup {[shape |-> "unknown", content |-> NoContent, raw |-> e] : e \in Unrecognized}

HasAttr(v, name) == v.kind = "object" /\ name \in v.has

----------------------------------------------------------------------------
\* Dispatch

\* F: the handlers that fault when called
invoke_all_unguarded(list, args, F) ==
    LET faulting == {i \in 1..Len(list) : list[i] \in F}
        stop == IF faulting = {} THEN Len(list)
                ELSE CHOOSE i \in faulting : \A j \in faulting : i <= j
    IN  [calls |-> [i \in 1..stop |->
                      [handler |-> list[i], args |-> args, fault |-> list[i] \in F]],
         raised |-> faulting # {}]

invoke_all(list, args, F) ==
    [calls |-> [i \in 1..Len(list) |->
                  [handler |-> list[i], args |-> args, fault |-> list[i] \in F]],
     raised |-> FALSE]

resolve_opcode_bare_int(cmd, args) ==
    IF HasAttr(cmd, "opcode")
      THEN [known |-> TRUE, opcode |-> PyInt(cmd.opcode),
            params |-> IF HasAttr(cmd, "parameters") THEN PyBytes(cmd.parameters) ELSE PyNone]
    ELSE IF Len(args) >= 3
      THEN [known |-> TRUE, opcode |-> args[3],
            params |-> IF Len(args) > 3 THEN args[4] ELSE PyNone]
    ELSE [known |-> TRUE, opcode |-> cmd, params |-> PyNone]

\* lines 412-425 of handle_command (args[2] and args[3] are args[3] and args[4] here)
resolve_opcode(cmd, args) ==
    IF HasAttr(cmd, "opcode")
      THEN [known |-> TRUE, opcode |-> PyInt(cmd.opcode),
            params |-> IF HasAttr(cmd, "parameters") THEN PyBytes(cmd.parameters) ELSE PyNone]
    ELSE IF Len(args) >= 3
      THEN [known |-> TRUE, opcode |-> args[3],
            params |-> IF Len(args) > 3 THEN args[4] ELSE PyNone]
    ELSE [known |-> FALSE, opcode |-> PyNone, params |-> PyNone]

NoKey == -1

DispatchRecord(op, args, key, ev, out) ==
    [op |-> op, args |-> args, pre |-> Pre, result |-> "None", raised |-> out.raised,
     trace |-> <<>>, key |-> key, shape |-> ev.shape, content |-> ev.content,
     invoked |-> out.calls]

\* the handlers the latest dispatch called, in call order
InvokedHandlers == [i \in 1..Len(last.invoked) |-> last.invoked[i].handler]

KeyEvent == [shape |-> "key", content |-> NoContent]

dispatchFrame == <<initialized, config, cec, registered, callbacks, command_callbacks,
                   everInit, cleaned, pending, closed, failedInit, contexts>>

handle_keypress_shared_keys ==
    \E key_code \in KeyCodes, duration \in Durations :
      \E F \in SUBSET Handlers :
        LET out == IF key_code \in DOMAIN callbacks
                     THEN invoke_all(callbacks[key_code], <<key_code, duration>>, F)
                     ELSE invoke_all(Lookup(command_callbacks, key_code),
                                     <<key_code, duration>>, F)
        IN  /\ last' = DispatchRecord("handle_keypress", <<key_code, duration>>,
                                      key_code, KeyEvent, out)
            /\ UNCHANGED dispatchFrame

handle_keypress ==
    \E key_code \in KeyCodes, duration \in Durations :
      \E F \in SUBSET Range(Lookup(callbacks, key_code)) :
        LET out == IF key_code \in DOMAIN callbacks
                     THEN invoke_all(callbacks[key_code], <<key_code, duration>>, F)
                     ELSE [calls |-> <<>>, raised |-> FALSE]
        IN  /\ last' = DispatchRecord("handle_keypress", <<key_code, duration>>,
                                      key_code, KeyEvent, out)
            /\ UNCHANGED dispatchFrame

handle_command ==
    \E ev \in Events :
      \E F \in SUBSET Range(Lookup(command_callbacks, ev.content.opcode)) :
        LET cmd == ev.raw.cmd
            args == ev.raw.args
            r == resolve_opcode(cmd, args)
            key == IF r.known /\ r.opcode.kind = "int" THEN r.opcode.val ELSE NoKey
            out == IF key \in DOMAIN command_callbacks
                     THEN invoke_all(command_callbacks[key], <<cmd>> \o args, F)
                     ELSE [calls |-> <<>>, raised |-> FALSE]
        IN  /\ last' = DispatchRecord("handle_command", <<cmd>> \o args, key, ev, out)
            /\ UNCHANGED dispatchFrame

----------------------------------------------------------------------------
\* Idle contexts

NotDispatching ==
    [active |-> FALSE, op |-> "", reg |-> "", key |-> NoKey, args |-> <<>>,
     ev |-> KeyEvent, idx |-> 0, start |-> <<>>, calls |-> <<>>]

NoDuration == [finite |-> FALSE, value |-> 0]

\* no context is inside init() or inside the hold of send_remote_button()
NotInflight ==
    [init |-> [active |-> FALSE, trace |-> <<>>, pre |-> Pre0],
     send |-> [active |-> FALSE, args |-> <<>>, trace |-> <<>>, pre |-> Pre0]]

NotRunning ==
    [active |-> FALSE, max_duration |-> NoDuration, start_time |-> 0, checks |-> 0,
     checked |-> 0, exact |-> TRUE]

----------------------------------------------------------------------------
\* Construction: CECAdapter.__init__

\* CECConfig(): the default configuration
DefaultConfig == [physical_address |-> <<"1", ".", "0", ".", "0", ".", "0">>]

\* the config argument of the constructor: None, or a configuration
NoConfig == [given |-> FALSE, physical_address |-> <<>>]

ConfigArguments ==
    {NoConfig} \cup {[given |-> TRUE, physical_address |-> a] : a \in PhysicalAddresses}

config_always_default(arg) == DefaultConfig

\* config or CECConfig()
config_or_default(arg) ==
    IF arg.given THEN [physical_address |-> arg.physical_address] ELSE DefaultConfig

Init ==
    /\ initialized = FALSE
    /\ cec \in Transports
    /\ registered = [key |-> 0, command |-> 0]
    /\ callbacks = <<>>
    /\ command_callbacks = <<>>
    /\ everInit = FALSE
    /\ cleaned = FALSE
    /\ pending = NoPending
    /\ closed = FALSE
    /\ failedInit = FALSE
    /\ dispatching = NotDispatching
    /\ running = NotRunning
    /\ clock = 0
    /\ inflight = NotInflight
    /\ class_constants = BuiltInConstants
    /\ constructed = [count |-> 1, module |-> NoConstants]
    /\ \E arg \in ConfigArguments :
          /\ config = config_or_default(arg)
          /\ last = [op |-> "__init__", args |-> <<arg>>,
                     pre |-> [initialized |-> FALSE, everInit |-> FALSE,
                             cleaned |-> FALSE, closed |-> FALSE, failedInit |-> FALSE,
                             registered |-> [key |-> 0, command |-> 0]],
                     result |-> "None", raised |-> FALSE, trace |-> <<>>]

Next ==
    \/ init
    \/ cleanup
    \/ SendCommand
    \/ power_on_tv
    \/ standby_tv
    \/ request_power_status
    \/ request_vendor_id
    \/ SetActiveSource
    \/ SendRemoteButton

Spec == Init /\ [][Next]_vars

\* The registries and the dispatch entry points, on an adapter after a successful
\* init() on a transport with callback registration
DispatchTransport ==
    [add_callback |-> TRUE, remove_callback |-> TRUE, close |-> FALSE,
     shutdown |-> FALSE, set_active_source |-> TRUE]

InitDispatch ==
    /\ initialized = TRUE
    /\ everInit = TRUE
    /\ config = [physical_address |-> <<"1", ".", "0", ".", "0", ".", "0">>]
    /\ cec = DispatchTransport
    /\ registered = [key |-> 1, command |-> 1]
    /\ callbacks = <<>>
    /\ command_callbacks = <<>>
    /\ cleaned = FALSE
    /\ pending = NoPending
    /\ closed = FALSE
    /\ failedInit = FALSE
    /\ dispatching = NotDispatching
    /\ running = NotRunning
    /\ clock = 0
    /\ inflight = NotInflight
    /\ class_constants = BuiltInConstants
    /\ constructed = [count |-> 1, module |-> NoConstants]
    /\ last = [op |-> "init", args |-> <<>>,
               pre |-> [initialized |-> FALSE, everInit |-> FALSE, cleaned |-> FALSE,
                       closed |-> FALSE, failedInit |-> FALSE,
                       registered |-> [key |-> 0, command |-> 0]],
               result |-> "True", raised |-> FALSE,
               trace |-> <<Call("init", <<>>, FALSE),
                           Call("add_callback", <<"handle_keypress", EVENT_KEYPRESS>>, FALSE),
                           Call("add_callback", <<"handle_command", EVENT_COMMAND>>, FALSE)>>]

NextDispatch ==
    \/ add_button_callback
    \/ remove_button_callback
    \/ add_command_callback
    \/ remove_command_callback
    \/ handle_keypress
    \/ handle_command

SpecDispatch == InitDispatch /\ [][NextDispatch]_vars

----------------------------------------------------------------------------
\* Dispatch of key events in the transport's context, one handler call at a time,
\* while the application's context registers and unregisters button handlers. The
\* code takes no lock; each registry operation is a few dictionary and list
\* operations of one context and is taken as one step. The loop of handle_command
\* (lines 427-433) is the same construct over command_callbacks.

\* the list object the for statement iterates over
IteratedList ==
    IF dispatching.reg = "button" THEN Lookup(callbacks, dispatching.key)
    ELSE Lookup(command_callbacks, dispatching.key)

Dispatching(op, reg, key, args, ev, list) ==
    [active |-> TRUE, op |-> op, reg |-> reg, key |-> key, args |-> args,
     ev |-> ev, idx |-> 0, start |-> list, calls |-> <<>>]

concurrentFrame == <<initialized, config, cec, registered, callbacks, command_callbacks,
                     everInit, cleaned, pending, closed, failedInit, running, clock,
                     inflight, classState>>

\* handle_keypress up to the creation of the list iterator
handle_keypress_enter ==
    \E key_code \in KeyCodes, duration \in Durations :
        /\ ~dispatching.active
        /\ IF key_code \in DOMAIN callbacks
             THEN /\ dispatching' = Dispatching("handle_keypress", "button", key_code,
                                                <<key_code, duration>>, KeyEvent,
                                                callbacks[key_code])
                  /\ UNCHANGED last
             ELSE /\ last' = DispatchRecord("handle_keypress", <<key_code, duration>>,
                                            key_code, KeyEvent,
                                            [calls |-> <<>>, raised |-> FALSE])
                  /\ UNCHANGED dispatching
        /\ UNCHANGED concurrentFrame

\* one step of the for statement: the iterator yields the element at its index of
\* the list as it is now and the handler is called inside try/except, or the
\* iterator is exhausted and the entry point returns
next_callback ==
    /\ dispatching.active
    /\ IF dispatching.idx < Len(IteratedList)
         THEN /\ \E fault \in BOOLEAN :
                    dispatching' =
                      [dispatching EXCEPT
                         !.idx = @ + 1,
                         !.calls = Append(@, [handler |-> IteratedList[dispatching.idx + 1],
                                              args |-> dispatching.args,
                                              fault |-> fault])]
              /\ UNCHANGED last
         ELSE /\ last' = DispatchRecord(dispatching.op, dispatching.args, dispatching.key,
                                        dispatching.ev,
                                        [calls |-> dispatching.calls, raised |-> FALSE])
              /\ dispatching' = NotDispatching
    /\ UNCHANGED concurrentFrame

NextConcurrent ==
    \/ add_button_callback
    \/ remove_button_callback
    \/ handle_keypress_enter
    \/ next_callback

SpecConcurrent == InitDispatch /\ [][NextConcurrent]_vars

----------------------------------------------------------------------------
\* Dispatch of key events in one context, with handlers that call the adapter's
\* registry from inside their invocation. What a handler's body does is the
\* application's choice: nothing, remove_button_callback or add_button_callback
\* under the key being dispatched.

HandlerBodies ==
    {[op |-> "none", handler |-> ""]} \cup
    {[op |-> o, handler |-> h] : o \in {"remove", "add"}, h \in Handlers}

\* self.callbacks after the body of a handler ran
after_body(body) ==
    IF body.op = "remove" THEN dict_remove(callbacks, dispatching.key, body.handler)
    ELSE IF body.op = "add" THEN dict_add(callbacks, dispatching.key, body.handler)
    ELSE callbacks

\* the register/unregister history after the body of a handler ran
pending_after_body(body) ==
    IF body.op = "remove"
      THEN PendingAfterRemove("button", dispatching.key, body.handler)
    ELSE IF body.op = "add"
      THEN PendingAfterAdd("button", callbacks, dispatching.key, body.handler)
    ELSE pending

reentrantFrame == <<initialized, config, cec, registered, command_callbacks,
                    everInit, cleaned, closed, failedInit, running, clock,
                    inflight, classState>>

\* one step of the for statement of handle_keypress: the iterator yields the
\* element at its index of the list as it is now, the handler is called and its
\* body runs to its end and returns (a handler that raises is caught at line 372
\* and the loop goes on in the same way); or the iterator is exhausted and the
\* entry point returns
call_handler ==
    /\ dispatching.active
    /\ IF dispatching.idx < Len(IteratedList)
         THEN /\ \E body \in HandlerBodies :
                    /\ body.op = "add" => TotalRegistered < MaxLen
                    /\ callbacks' = after_body(body)
                    /\ pending' = pending_after_body(body)
                    /\ dispatching' =
                         [dispatching EXCEPT
                            !.idx = @ + 1,
                            !.calls = Append(@, [handler |-> IteratedList[dispatching.idx + 1],
                                                 args |-> dispatching.args,
                                                 fault |-> FALSE,
                                                 body |-> body])]
              /\ UNCHANGED last
         ELSE /\ last' = DispatchRecord(dispatching.op, dispatching.args, dispatching.key,
                                        dispatching.ev,
                                        [calls |-> [i \in 1..Len(dispatching.calls) |->
                                                     [handler |-> dispatching.calls[i].handler,
                                                      args |-> dispatching.calls[i].args,
                                                      fault |-> FALSE]],
                                         raised |-> FALSE])
              /\ dispatching' = NotDispatching
              /\ UNCHANGED <<callbacks, pending>>
    /\ UNCHANGED reentrantFrame

\* the application registers handlers between dispatches
NextReentrant ==
    \/ (~dispatching.active /\ add_button_callback)
    \/ handle_keypress_enter
    \/ call_handler

SpecReentrant == InitDispatch /\ [][NextReentrant]_vars

----------------------------------------------------------------------------
\* The transport's context delivering key events while the application's contexts
\* are inside init(), cleanup() and send_remote_button(). init() has one point
\* where another context can come in between its transport calls and its
\* assignment to self.initialized (after line 280, before line 282);
\* send_remote_button() has one during time.sleep(hold_time) (line 556). The
\* transport calls an entry point only while it is registered.

interleavedFrame == <<config, cec, callbacks, command_callbacks, pending, closed,
                      dispatching, running, clock, classState>>

\* init() from its start to the return of register_event_handlers() (lines
\* 273-280), or to the return from the except branch when a call faulted
init_try ==
    \E f \in [1..3 -> BOOLEAN] :
        LET try == try_init(f)
        IN  /\ ~inflight.init.active
            /\ cec.add_callback => (registered.key < MaxReg /\ registered.command < MaxReg)
            /\ registered' = try.reg
            /\ cleaned' = FALSE
            /\ IF try.ok
                 THEN /\ inflight' = [inflight EXCEPT
                                        !.init = [active |-> TRUE, trace |-> try.trace,
                                                  pre |-> Pre]]
                      /\ UNCHANGED <<last, failedInit>>
                 ELSE /\ failedInit' = (~initialized /\ try.trace[1].fault)
                      /\ last' = Record("init", <<>>, Outcome("False", FALSE, try.trace))
                      /\ UNCHANGED inflight
            /\ UNCHANGED <<initialized, everInit, interleavedFrame>>

\* the rest of the try block of init(): self.initialized = True; return True
\* (lines 282-287)
init_return ==
    /\ inflight.init.active
    /\ initialized' = TRUE
    /\ everInit' = TRUE
    /\ failedInit' = FALSE
    /\ last' = [Record("init", <<>>, Outcome("True", FALSE, inflight.init.trace))
                  EXCEPT !.pre = inflight.init.pre]
    /\ inflight' = [inflight EXCEPT !.init = NotInflight.init]
    /\ UNCHANGED <<registered, cleaned, interleavedFrame>>

\* send_remote_button() up to time.sleep(hold_time) (lines 539-556), or to its
\* return when it does not get there
send_remote_button_press ==
    \E button_code \in Buttons, pressed \in BOOLEAN, hold_time \in HoldTimes,
       f \in [1..2 -> BOOLEAN] :
        LET press == send_command(USER_CONTROL_PRESSED, CECDEVICE_TV, <<button_code>>, f[1])
        IN  /\ ~inflight.send.active
            /\ IF initialized /\ pressed /\ press.result = "True" /\ hold_time > 0
                 THEN /\ inflight' =
                           [inflight EXCEPT
                              !.send = [active |-> TRUE,
                                        args |-> <<button_code, pressed, hold_time>>,
                                        trace |-> press.trace \o
                                                  <<Call("sleep", <<hold_time>>, FALSE)>>,
                                        pre |-> Pre]]
                      /\ UNCHANGED last
                 ELSE /\ last' = Record("send_remote_button",
                                        <<button_code, pressed, hold_time>>,
                                        send_remote_button(button_code, pressed, hold_time, f))
                      /\ UNCHANGED inflight
            /\ UNCHANGED <<initialized, registered, everInit, cleaned, failedInit,
                           interleavedFrame>>

\* after the sleep: return self.send_remote_button(button_code, False) (line 557),
\* which reads self.initialized again (line 539)
send_remote_button_release ==
    \E fault \in BOOLEAN :
        LET rel == send_release(inflight.send.args[1], fault)
        IN  /\ inflight.send.active
            /\ last' = [Record("send_remote_button", inflight.send.args,
                               Outcome(rel.result, rel.raised,
                                       inflight.send.trace \o rel.trace))
                          EXCEPT !.pre = inflight.send.pre]
            /\ inflight' = [inflight EXCEPT !.send = NotInflight.send]
            /\ UNCHANGED <<initialized, registered, everInit, cleaned, failedInit,
                           interleavedFrame>>

\* the transport's context against the lifecycle
NextInterleaved ==
    \/ init_try
    \/ init_return
    \/ cleanup
    \/ add_button_callback
    \/ (registered.key > 0 /\ handle_keypress)

\* the lifecycle against a context inside send_remote_button()
NextHold ==
    \/ init
    \/ cleanup
    \/ send_remote_button_press
    \/ send_remote_button_release

\* transports with callback registration; with or without remove_callback and
\* close
InterleavedTransports ==
    {t \in Transports : t.add_callback /\ ~t.shutdown /\ ~t.set_active_source}

\* a freshly constructed adapter with the default configuration
InitInterleaved ==
    /\ initialized = FALSE
    /\ cec \in InterleavedTransports
    /\ registered = [key |-> 0, command |-> 0]
    /\ callbacks = <<>>
    /\ command_callbacks = <<>>
    /\ everInit = FALSE
    /\ cleaned = FALSE
    /\ pending = NoPending
    /\ closed = FALSE
    /\ failedInit = FALSE
    /\ dispatching = NotDispatching
    /\ running = NotRunning
    /\ clock = 0
    /\ inflight = NotInflight
    /\ class_constants = BuiltInConstants
    /\ constructed = [count |-> 1, module |-> NoConstants]
    /\ config = config_or_default(NoConfig)
    /\ last = [op |-> "__init__", args |-> <<NoConfig>>, pre |-> Pre0,
               result |-> "None", raised |-> FALSE, trace |-> <<>>]

SpecInterleaved == InitInterleaved /\ [][NextInterleaved]_vars

SpecHold == InitInterleaved /\ [][NextHold]_vars

----------------------------------------------------------------------------
\* Construction of further adapters in the same process. Every CECAdapter.__init__
\* runs update_from_module on the two classes with the module get_cec_module()
\* returns at that time.

constructFrame == <<initialized, config, cec, registered, callbacks, command_callbacks,
                    last, everInit, cleaned, pending, closed, failedInit,
                    dispatching, running, clock, inflight>>

\* CECAdapter(...) for a further adapter
construct ==
    \E module \in Modules :
        /\ constructed.count < MaxAdapters
        /\ class_constants' = update_from_module(class_constants, module)
        /\ constructed' = [constructed EXCEPT !.count = @ + 1]
        /\ UNCHANGED constructFrame

InitConstants ==
    /\ initialized = FALSE
    /\ config = DefaultConfig
    /\ cec = DispatchTransport
    /\ registered = [key |-> 0, command |-> 0]
    /\ callbacks = <<>>
    /\ command_callbacks = <<>>
    /\ everInit = FALSE
    /\ cleaned = FALSE
    /\ pending = NoPending
    /\ closed = FALSE
    /\ failedInit = FALSE
    /\ dispatching = NotDispatching
    /\ running = NotRunning
    /\ clock = 0
    /\ inflight = NotInflight
    /\ \E module \in Modules :
          /\ class_constants = update_from_module(BuiltInConstants, module)
          /\ constructed = [count |-> 1, module |-> module]
    /\ last = [op |-> "__init__", args |-> <<NoConfig>>,
               pre |-> [initialized |-> FALSE, everInit |-> FALSE,
                       cleaned |-> FALSE, closed |-> FALSE, failedInit |-> FALSE,
                       registered |-> [key |-> 0, command |-> 0]],
               result |-> "None", raised |-> FALSE, trace |-> <<>>]

NextConstants == construct

SpecConstants == InitConstants /\ [][NextConstants]_vars

----------------------------------------------------------------------------
\* Properties of the constants (checked under SpecConstants)

\* C26: button codes and opcodes are resolved once, when the first adapter is
\* constructed: each is the transport module's value for the first candidate name
\* that module has, or the built-in default when it has none, and no later
\* operation, the construction of a further adapter included, changes them.
C26_ConstantsResolvedOnce ==
    class_constants = update_from_module(BuiltInConstants, constructed.module)

----------------------------------------------------------------------------
\* run(): the idle loop, one iteration at a time

RunArguments == {NoDuration} \cup {[finite |-> TRUE, value |-> d] : d \in MaxDurations}

duration_reached_late(max_duration, elapsed) ==
    max_duration.finite /\ elapsed > max_duration.value

\* max_duration is not None and time.time() - start_time >= max_duration
duration_reached(max_duration, elapsed) ==
    max_duration.finite /\ elapsed >= max_duration.value

RunRecord(max_duration, entered, elapsed, checks, exact, interrupted) ==
    [op |-> "run", args |-> <<max_duration>>, pre |-> [Pre EXCEPT !.initialized = entered],
     result |-> "None", raised |-> FALSE, trace |-> <<>>,
     elapsed |-> elapsed, checks |-> checks, exact |-> exact, interrupted |-> interrupted]

runFrame == <<initialized, config, cec, registered, callbacks, command_callbacks,
              everInit, cleaned, pending, closed, failedInit, dispatching, inflight,
              classState>>

\* run() up to the loop; a finite run is started only if the clock of the model
\* has room for it
run_enter ==
    \E max_duration \in RunArguments :
        /\ ~running.active
        /\ clock + LongestDuration + Poll <= MaxClock
        /\ IF ~initialized
             THEN /\ last' = RunRecord(max_duration, FALSE, 0, 0, TRUE, FALSE)
                  /\ UNCHANGED running
             ELSE /\ running' = [active |-> TRUE, max_duration |-> max_duration,
                                 start_time |-> clock, checks |-> 0, checked |-> clock,
                                 exact |-> TRUE]
                  /\ UNCHANGED last
        /\ UNCHANGED <<runFrame, clock>>

run_check_dispatching ==
    LET elapsed == clock - running.start_time
    IN  /\ running.active
        /\ IF duration_reached(running.max_duration, elapsed)
             THEN /\ last' = RunRecord(running.max_duration, TRUE, elapsed, running.checks,
                                       running.exact, FALSE)
                  /\ running' = NotRunning
                  /\ UNCHANGED clock
             ELSE /\ \E over \in Oversleep :
                        /\ clock + Poll + over <= MaxClock
                        /\ clock' = clock + Poll + over
                        /\ running' = [running EXCEPT !.checks = @ + 1,
                                                      !.checked = clock,
                                                      !.exact = @ /\ over = 0]
                  /\ last' = DispatchRecord("handle_keypress", <<PLAY, 5>>, PLAY, KeyEvent,
                                            invoke_all(Lookup(callbacks, PLAY),
                                                       <<PLAY, 5>>, {}))
        /\ UNCHANGED runFrame

\* one iteration of the loop: the duration check, then break and return, or sleep
run_check ==
    LET elapsed == clock - running.start_time
    IN  /\ running.active
        /\ IF duration_reached(running.max_duration, elapsed)
             THEN /\ last' = RunRecord(running.max_duration, TRUE, elapsed, running.checks,
                                       running.exact, FALSE)
                  /\ running' = NotRunning
                  /\ UNCHANGED clock
             ELSE /\ \E over \in Oversleep :
                        /\ clock + Poll + over <= MaxClock
                        /\ clock' = clock + Poll + over
                        /\ running' = [running EXCEPT !.checks = @ + 1,
                                                      !.checked = clock,
                                                      !.exact = @ /\ over = 0]
                  /\ UNCHANGED last
        /\ UNCHANGED runFrame

\* KeyboardInterrupt raised in the loop: caught, run() returns
KeyboardInterrupt ==
    /\ running.active
    /\ last' = RunRecord(running.max_duration, TRUE, clock - running.start_time,
                         running.checks, running.exact, TRUE)
    /\ running' = NotRunning
    /\ UNCHANGED <<runFrame, clock>>

InitRun ==
    /\ initialized \in BOOLEAN
    /\ everInit = initialized
    /\ config = [physical_address |-> <<"1", ".", "0", ".", "0", ".", "0">>]
    /\ cec = DispatchTransport
    /\ registered = IF initialized THEN [key |-> 1, command |-> 1]
                    ELSE [key |-> 0, command |-> 0]
    /\ callbacks = <<>>
    /\ command_callbacks = <<>>
    /\ cleaned = FALSE
    /\ pending = NoPending
    /\ closed = FALSE
    /\ failedInit = FALSE
    /\ dispatching = NotDispatching
    /\ running = NotRunning
    /\ clock = 0
    /\ inflight = NotInflight
    /\ class_constants = BuiltInConstants
    /\ constructed = [count |-> 1, module |-> NoConstants]
    /\ last = IF initialized
                THEN [op |-> "init", args |-> <<>>,
                      pre |-> [initialized |-> FALSE, everInit |-> FALSE,
                              cleaned |-> FALSE, closed |-> FALSE, failedInit |-> FALSE,
                              registered |-> [key |-> 0, command |-> 0]],
                      result |-> "True", raised |-> FALSE,
                      trace |-> <<Call("init", <<>>, FALSE),
                                  Call("add_callback",
                                       <<"handle_keypress", EVENT_KEYPRESS>>, FALSE),
                                  Call("add_callback",
                                       <<"handle_command", EVENT_COMMAND>>, FALSE)>>]
                ELSE [op |-> "__init__", args |-> <<>>,
                      pre |-> [initialized |-> FALSE, everInit |-> FALSE,
                              cleaned |-> FALSE, closed |-> FALSE, failedInit |-> FALSE,
                              registered |-> [key |-> 0, command |-> 0]],
                      result |-> "None", raised |-> FALSE, trace |-> <<>>]

NextRun ==
    \/ run_enter
    \/ run_check
    \/ KeyboardInterrupt

\* the loop is the calling context's own control flow and time.sleep returns, so
\* an iteration that can be taken is taken
SpecRun == InitRun /\ [][NextRun]_vars /\ WF_vars(run_check)

\* run() in the application's context while the transport's context delivers key
\* events and handlers get registered
NextKeepAlive ==
    \/ run_enter
    \/ run_check
    \/ KeyboardInterrupt
    \/ add_button_callback
    \/ handle_keypress

SpecKeepAlive == InitRun /\ [][NextKeepAlive]_vars

----------------------------------------------------------------------------
\* Properties of run() (checked under SpecRun and SpecKeepAlive)

\* C27: run() is a keep-alive only: a step of run() (entering, a loop iteration,
\* returning) calls no handler and no transport primitive and leaves initialized,
\* the transport registrations and both registries unchanged; every handler call
\* made while run() is blocked is made by a dispatch entry point in the
\* transport's context, which does not move run().
C27_RunIsKeepAlive ==
    [][/\ (running' # running \/ (last' # last /\ last'.op = "run")) =>
            /\ UNCHANGED <<initialized, registered, callbacks, command_callbacks,
                           dispatching>>
            /\ last' # last =>
                  (last'.op = "run" /\ last'.trace = <<>> /\ ~last'.raised)
       /\ (running.active /\ last' # last /\ last'.op = "handle_keypress") =>
            running' = running]_vars

C27_Witness ==
    /\ running.active
    /\ running.checks >= 1
    /\ last.op = "handle_keypress"
    /\ InvokedHandlers = <<"h1">>
    /\ initialized


\* C16: run(max_duration) with a finite max_duration on an initialized adapter
\* returns without an interrupt: no duration check before the one it returns at saw
\* elapsed >= max_duration, at the return elapsed >= max_duration, and when every
\* sleep advanced the clock by exactly one poll interval, elapsed is at most
\* max_duration plus one poll interval.
C16_RunReturnsOnTime ==
    /\ []((running.active /\ running.max_duration.finite /\ running.checks > 0) =>
             running.checked - running.start_time < running.max_duration.value)
    /\ []((/\ last.op = "run" /\ last.pre.initialized
           /\ last.args[1].finite /\ ~last.interrupted) =>
             /\ last.elapsed >= last.args[1].value
             /\ last.exact => last.elapsed <= last.args[1].value + Poll)
    /\ ((running.active /\ running.max_duration.finite) ~> ~running.active)

C16_Witness ==
    /\ last.op = "run"
    /\ last.pre.initialized
    /\ last.args[1] = [finite |-> TRUE, value |-> 3]
    /\ ~last.interrupted
    /\ last.exact
    /\ last.checks = 2
    /\ last.elapsed = 4

----------------------------------------------------------------------------
\* Properties of the lifecycle and the sender (checked under Spec)

SendBuiltOps == {"send_command", "power_on_tv", "standby_tv", "request_power_status",
                 "request_vendor_id", "send_remote_button"}

SenderOps == SendBuiltOps \cup {"set_active_source"}

IsPressWithHold ==
    /\ last.op = "send_remote_button"
    /\ last.pre.initialized
    /\ last.args[2]
    /\ last.args[3] > 0

\* C1: send_command on an adapter on which no init() has ever succeeded returns
\* False and makes no transport call, whatever opcode, destination and parameters.
C1_SendBeforeInitFails ==
    (last.op = "send_command" /\ ~last.pre.everInit) =>
        /\ last.result = "False"
        /\ ~last.raised
        /\ TransportCalls(last.trace) = <<>>

C1_Witness ==
    /\ last.op = "send_command"
    /\ ~last.pre.everInit
    /\ last.result = "False"
    /\ last.args = <<USER_CONTROL_PRESSED, CECDEVICE_BROADCAST, <<1>>>>

\* C2: after cleanup() returns on an Initialized adapter, initialized is false,
\* whether the shutdown primitive succeeded, faulted or is not exposed at all.
C2_CleanupClearsInitialized ==
    (last.op = "cleanup" /\ last.pre.initialized /\ ~last.raised) => ~initialized

\* C3: a send (send_command or an intent built on it) issued after cleanup() has
\* returned and before any later init() returns False and makes no transmit call.
C3_SendAfterCleanupFails ==
    (last.op \in SendBuiltOps /\ last.pre.cleaned) =>
        /\ last.result = "False"
        /\ Transmits(last.trace) = <<>>

\* a.b.c.d with four hex digits
IsDottedQuad(addr) ==
    /\ Len(addr) = 7
    /\ \A i \in {2, 4, 6} : addr[i] = "."
    /\ \A i \in {1, 3, 5, 7} : \E n \in 1..16 : HexDigits[n] = addr[i]

\* C11: on a transport without the set_active_source convenience primitive,
\* set_active_source() on an initialized adapter whose configured physical address
\* is a.b.c.d makes one transmit call: ACTIVE_SOURCE to the broadcast address with
\* the two parameter bytes [16*a+b, 16*c+d]; for "1.0.0.0" these are [16, 0].
C11_ActiveSourceBytes ==
    (/\ last.op = "set_active_source"
     /\ last.pre.initialized
     /\ ~cec.set_active_source
     /\ IsDottedQuad(config.physical_address)) =>
        LET addr == config.physical_address
        IN  /\ Len(last.trace) = 1
            /\ last.trace[1].prim = "transmit"
            /\ last.trace[1].args =
                  <<CECDEVICE_BROADCAST, ACTIVE_SOURCE,
                    <<16 * HexVal(addr[1]) + HexVal(addr[3]),
                      16 * HexVal(addr[5]) + HexVal(addr[7])>> >>
            /\ (addr = <<"1", ".", "0", ".", "0", ".", "0">>) =>
                   last.trace[1].args[3] = <<16, 0>>

C11_Witness ==
    /\ last.op = "set_active_source"
    /\ last.pre.initialized
    /\ ~cec.set_active_source
    /\ config.physical_address = <<"2", ".", "f", ".", "a", ".", "3">>
    /\ last.trace = <<Call("transmit", <<CECDEVICE_BROADCAST, ACTIVE_SOURCE, <<47, 163>> >>,
                           FALSE)>>
    /\ last.result = "True"

\* C12: Closed is terminal: once cleanup() has returned on an initialized adapter,
\* no later init() on that adapter returns True, and none turns initialized from
\* false to true.
C12_ClosedIsTerminal ==
    (last.op = "init" /\ last.pre.closed) =>
        /\ last.result = "False"
        /\ ~last.pre.initialized => ~initialized

\* C13: when cec.init() faults in an init() on an uninitialized adapter, init()
\* returns False without raising and initialized stays false, and every send
\* (send_command or an intent built on it) issued before the next init() returns
\* False and makes no transmit call.
C13_FailedInitStaysUninitialized ==
    /\ failedInit => ~initialized
    /\ (last.op = "init" /\ failedInit) =>
           (last.result = "False" /\ ~last.raised /\ Len(last.trace) = 1)
    /\ (last.op \in SendBuiltOps /\ last.pre.failedInit) =>
           (last.result = "False" /\ ~last.raised /\ Transmits(last.trace) = <<>>)

C13_Witness ==
    /\ last.op = "power_on_tv"
    /\ last.pre.failedInit
    /\ ~last.pre.everInit
    /\ last.result = "False"
    /\ last.trace = <<>>

\* C14: cleanup() never fails outward: whichever transport primitive faults during
\* it, a remove_callback call or the shutdown primitive, no exception leaves
\* cleanup().
C14_CleanupNeverRaises ==
    (last.op = "cleanup") => ~last.raised

\* C17: every operation that needs initialized = true fails fast otherwise:
\* set_active_source, send_remote_button, power_on_tv, standby_tv,
\* request_power_status, request_vendor_id and run, called with initialized false,
\* return their failure result (False; run returns None) and call no transport
\* primitive, the set_active_source convenience primitive included.
C17_UninitializedFailsFast ==
    (/\ last.op \in {"set_active_source", "send_remote_button", "power_on_tv", "standby_tv",
                     "request_power_status", "request_vendor_id", "run"}
     /\ ~last.pre.initialized) =>
        /\ last.result = (IF last.op = "run" THEN "None" ELSE "False")
        /\ ~last.raised
        /\ TransportCalls(last.trace) = <<>>

\* C23 as stated: set_active_source() issues the manual transmit only when the
\* transport exposes no convenience primitive: with the primitive exposed it is
\* called and no transmit call is made.
C23_NoTransmitWithConvenience ==
    (last.op = "set_active_source" /\ cec.set_active_source) =>
        /\ Len(last.trace) >= 1
        /\ last.trace[1].prim = "set_active_source"
        /\ Transmits(last.trace) = <<>>

\* C23 as the code has it: set_active_source() calls the convenience primitive
\* first whenever the transport exposes one and makes no transmit call when it
\* returns a truthy value or faults; when it returns a falsy value, or is not
\* exposed, an initialized adapter with a well-formed address falls back to one
\* manual ACTIVE_SOURCE transmit.
C23_ConvenienceThenFallback ==
    (last.op = "set_active_source") =>
        /\ cec.set_active_source =>
              /\ Len(last.trace) >= 1
              /\ last.trace[1].prim = "set_active_source"
              /\ last.trace[1].returned = "truthy" =>
                    (Len(last.trace) = 1 /\ last.result = "True")
              /\ last.trace[1].returned = "fault" =>
                    (Len(last.trace) = 1 /\ last.result = "False")
              /\ (/\ last.trace[1].returned = "falsy"
                  /\ last.pre.initialized
                  /\ IsDottedQuad(config.physical_address)) =>
                    /\ Len(last.trace) = 2
                    /\ last.trace[2].prim = "transmit"
                    /\ last.trace[2].args[1] = CECDEVICE_BROADCAST
                    /\ last.trace[2].args[2] = ACTIVE_SOURCE
        /\ ~cec.set_active_source =>
              \A i \in 1..Len(last.trace) : last.trace[i].prim = "transmit"
        /\ Len(Transmits(last.trace)) <= 1

C23_Witness ==
    /\ last.op = "set_active_source"
    /\ cec.set_active_source
    /\ last.pre.initialized
    /\ Len(last.trace) = 2
    /\ last.trace[1].returned = "falsy"
    /\ last.trace[2] = Call("transmit", <<CECDEVICE_BROADCAST, ACTIVE_SOURCE, <<16, 0>> >>,
                            FALSE)
    /\ last.result = "True"

\* C24: send_remote_button(code, pressed=false) on an initialized adapter makes
\* exactly one transport call, the transmit of USER_CONTROL_RELEASED to the TV with
\* an empty parameter sequence, with no press and no sleep, and returns True when
\* that transmit succeeded and False when it faulted.
C24_ReleaseOnly ==
    (/\ last.op = "send_remote_button"
     /\ last.pre.initialized
     /\ ~last.args[2]) =>
        /\ Len(last.trace) = 1
        /\ last.trace[1].prim = "transmit"
        /\ last.trace[1].args = <<CECDEVICE_TV, USER_CONTROL_RELEASED, <<>> >>
        /\ last.result = (IF last.trace[1].fault THEN "False" ELSE "True")
        /\ ~last.raised

C24_Witness ==
    /\ last.op = "send_remote_button"
    /\ last.pre.initialized
    /\ last.args = <<VOLUME_UP, FALSE, 2>>
    /\ last.trace = <<Call("transmit", <<CECDEVICE_TV, USER_CONTROL_RELEASED, <<>> >>, FALSE)>>
    /\ last.result = "True"

\* C25: a newly constructed adapter holds the configuration it was given, or the
\* default configuration when it was given none, has initialized false and has
\* both callback registries empty.
C25_ConstructedState ==
    (last.op = "__init__") =>
        /\ config = (IF last.args[1].given
                       THEN [physical_address |-> last.args[1].physical_address]
                       ELSE [physical_address |-> <<"1", ".", "0", ".", "0", ".", "0">>])
        /\ initialized = FALSE
        /\ callbacks = <<>>
        /\ command_callbacks = <<>>

C25_Witness ==
    /\ last.op = "__init__"
    /\ last.args[1].given
    /\ config.physical_address = <<"2", ".", "f", ".", "a", ".", "3">>
    /\ ~initialized
    /\ DOMAIN callbacks = {}
    /\ DOMAIN command_callbacks = {}

\* C28: cleanup() called while initialized is false makes no transport call, no
\* remove_callback and no shutdown, raises nothing and leaves the adapter as it
\* was.
C28_CleanupUninitializedNoOp ==
    [][(last'.op = "cleanup" /\ ~initialized) =>
          /\ last'.trace = <<>>
          /\ ~last'.raised
          /\ UNCHANGED <<initialized, config, cec, registered, callbacks,
                         command_callbacks>>]_vars

C28_Witness ==
    /\ last.op = "cleanup"
    /\ ~last.pre.initialized
    /\ last.pre.everInit
    /\ cec.remove_callback /\ cec.close
    /\ registered.key > 0
    /\ last.trace = <<>>
    /\ ~initialized

\* C29: initialized is true only through a successful init(): whenever initialized
\* is true some init() has returned True, and an init() returns True exactly when
\* cec.init() completed without fault and then, on a transport that exposes
\* add_callback, both entry points were registered (handle_keypress for key
\* events, then handle_command for command events); on a transport without
\* add_callback init() succeeds after cec.init() alone and registers nothing.
C29_InitializedOnlyByInit ==
    /\ initialized => everInit
    /\ (last.op = "init" /\ ~last.pre.initialized) =>
           (initialized <=> last.result = "True")
    /\ (last.op = "init" /\ last.result = "True") =>
           /\ initialized
           /\ last.trace[1] = Call("init", <<>>, FALSE)
           /\ cec.add_callback =>
                 /\ last.trace =
                      <<Call("init", <<>>, FALSE),
                        Call("add_callback", <<"handle_keypress", EVENT_KEYPRESS>>, FALSE),
                        Call("add_callback", <<"handle_command", EVENT_COMMAND>>, FALSE)>>
                 /\ registered = [key |-> last.pre.registered.key + 1,
                                  command |-> last.pre.registered.command + 1]
           /\ ~cec.add_callback =>
                 (Len(last.trace) = 1 /\ registered = last.pre.registered)
    /\ (last.op = "init" /\ ~cec.add_callback /\ ~last.trace[1].fault) =>
           last.result = "True"

C29_Witness ==
    /\ last.op = "init"
    /\ ~last.pre.everInit
    /\ cec.add_callback
    /\ last.result = "True"
    /\ initialized
    /\ registered = [key |-> 1, command |-> 1]
    /\ Len(last.trace) = 3

\* A cleanup() that returned, on an initialized adapter whose init() had
\* registered the two entry points once each.
CleanupOfRegistered ==
    /\ last.op = "cleanup"
    /\ last.pre.initialized
    /\ last.pre.registered = [key |-> 1, command |-> 1]
    /\ ~last.raised

UnregistersBothThenShutdown ==
    /\ Len(last.trace) >= 2
    /\ last.trace[1] = Call("remove_callback", <<"handle_keypress", EVENT_KEYPRESS>>, FALSE)
    /\ last.trace[2] = Call("remove_callback", <<"handle_command", EVENT_COMMAND>>, FALSE)
    /\ \A i \in 3..Len(last.trace) : last.trace[i].prim \in {"close", "shutdown"}
    /\ registered = [key |-> 0, command |-> 0]

ShutdownCalls(trace) == SelectSeq(trace, LAMBDA c : c.prim \in {"close", "shutdown"})

\* C31: one cleanup() of an initialized adapter calls at most one transport
\* shutdown primitive, as its last transport call: close if the transport exposes
\* it, otherwise shutdown if the transport exposes that, otherwise none; never
\* both, and never shutdown after close faulted.
C31_OneShutdownPrimitive ==
    last.op = "cleanup" =>
        /\ Len(ShutdownCalls(last.trace)) <= 1
        /\ (last.pre.initialized /\ ~last.raised) =>
              /\ cec.close => (/\ last.trace # <<>>
                               /\ last.trace[Len(last.trace)].prim = "close")
              /\ (~cec.close /\ cec.shutdown) =>
                    (/\ last.trace # <<>>
                     /\ last.trace[Len(last.trace)].prim = "shutdown")
              /\ (~cec.close /\ ~cec.shutdown) => ShutdownCalls(last.trace) = <<>>
              /\ Len(ShutdownCalls(last.trace)) = (IF cec.close \/ cec.shutdown THEN 1 ELSE 0)

\* a cleanup() whose close() faulted on a transport that also exposes shutdown()
C31_Witness ==
    /\ last.op = "cleanup"
    /\ last.pre.initialized
    /\ cec.close /\ cec.shutdown
    /\ ShutdownCalls(last.trace) = <<Call("close", <<>>, TRUE)>>
    /\ ~initialized

\* the sender's fixed intents and the opcode each one is written with
IntentOpcode ==
    [power_on_tv |-> IMAGE_VIEW_ON, standby_tv |-> STANDBY,
     request_power_status |-> GIVE_DEVICE_POWER_STATUS,
     request_vendor_id |-> GIVE_DEVICE_VENDOR_ID]

\* C32: on an initialized adapter, power_on_tv, standby_tv, request_power_status
\* and request_vendor_id each make exactly one transport call, a transmit to the
\* TV (logical address 0) with an empty parameter sequence and the opcode
\* image-view-on, standby, give-device-power-status and give-device-vendor-id
\* respectively, and return True exactly when that transmit did not fault.
C32_IntentsTransmitOnce ==
    (last.op \in DOMAIN IntentOpcode /\ last.pre.initialized) =>
        /\ Len(last.trace) = 1
        /\ last.trace[1].prim = "transmit"
        /\ last.trace[1].args = <<0, IntentOpcode[last.op], <<>>>>
        /\ last.result = (IF last.trace[1].fault THEN "False" ELSE "True")
        /\ ~last.raised

C32_Witness ==
    /\ last.op = "request_vendor_id"
    /\ last.pre.initialized
    /\ last.trace = <<Call("transmit", <<CECDEVICE_TV, GIVE_DEVICE_VENDOR_ID, <<>>>>, FALSE)>>
    /\ last.result = "True"

\* C37: cleanup() is idempotent with respect to the transport: a cleanup() that
\* follows a cleanup() which returned, with no init() called in between (the
\* destructor's call after an explicit cleanup() is such a call), makes no
\* transport call, so after one successful init() the shutdown primitive and the
\* unregistration of each entry point are called at most once.
C37_CleanupIdempotent ==
    (last.op = "cleanup" /\ last.pre.cleaned) => last.trace = <<>>

\* C38: each entry point is registered with the transport at most once at any
\* time, whatever sequence of init() calls is made: an init() on an adapter that
\* is already initialized makes no add_callback call.
C38_RegisteredAtMostOnce ==
    /\ registered.key <= 1
    /\ registered.command <= 1
    /\ (last.op = "init" /\ last.pre.initialized) =>
          \A i \in 1..Len(last.trace) : last.trace[i].prim # "add_callback"

\* C39: an init() that returns failure leaves no entry point registered with the
\* transport that was not registered before it, also when cec.init() succeeded,
\* the key entry point was registered and the registration of the command entry
\* point faulted.
C39_FailedInitLeavesNothingRegistered ==
    (last.op = "init" /\ last.result = "False"
       /\ last.pre.registered = [key |-> 0, command |-> 0]) =>
        registered = [key |-> 0, command |-> 0]

AllSucceeded(calls) == calls # <<>> /\ \A i \in 1..Len(calls) : ~calls[i].fault

\* C40: send_remote_button returns True exactly when the transmits it attempted
\* all completed without fault: for pressed=true with hold_time>0 it returns True
\* only if both the press and the release transmit succeeded, and it returns False
\* when the press succeeded and the release faulted.
C40_TrueIffAllTransmitsSucceeded ==
    last.op = "send_remote_button" =>
        /\ last.result \in {"True", "False"}
        /\ last.result = "True" <=> AllSucceeded(Transmits(last.trace))
        /\ (IsPressWithHold /\ last.result = "True") =>
              /\ Len(Transmits(last.trace)) = 2
              /\ Transmits(last.trace)[1].args[2] = USER_CONTROL_PRESSED
              /\ Transmits(last.trace)[2].args[2] = USER_CONTROL_RELEASED
        /\ (/\ IsPressWithHold
            /\ Len(Transmits(last.trace)) = 2
            /\ ~Transmits(last.trace)[1].fault
            /\ Transmits(last.trace)[2].fault) => last.result = "False"

\* the press succeeded and the release faulted
C40_Witness ==
    /\ IsPressWithHold
    /\ Len(Transmits(last.trace)) = 2
    /\ ~Transmits(last.trace)[1].fault
    /\ Transmits(last.trace)[2].fault
    /\ Transmits(last.trace)[2].args[2] = USER_CONTROL_RELEASED
    /\ last.result = "False"

\* C7: on an initialized adapter, send_remote_button(code, pressed=true, hold_time>0)
\* whose press transmit succeeds makes exactly two transmit calls: the press opcode
\* to the TV with the one-byte parameter code, then, after the hold interval, the
\* release opcode to the TV with no parameter.
C7_PressThenRelease ==
    (/\ IsPressWithHold
     /\ Len(last.trace) >= 1
     /\ last.trace[1].prim = "transmit"
     /\ ~last.trace[1].fault) =>
        /\ Len(last.trace) = 3
        /\ Len(Transmits(last.trace)) = 2
        /\ last.trace[1].args = <<CECDEVICE_TV, USER_CONTROL_PRESSED, <<last.args[1]>> >>
        /\ last.trace[2] = Call("sleep", <<last.args[3]>>, FALSE)
        /\ last.trace[3].prim = "transmit"
        /\ last.trace[3].args = <<CECDEVICE_TV, USER_CONTROL_RELEASED, <<>> >>

C7_Witness ==
    /\ IsPressWithHold
    /\ last.args[1] = VOLUME_UP
    /\ Len(Transmits(last.trace)) = 2
    /\ ~last.trace[1].fault
    /\ last.result = "True"

\* C8: if the press transmit of send_remote_button(code, pressed=true, hold_time)
\* faults, no release is attempted: exactly one transmit call is made and the
\* operation returns False.
C8_FailedPressNoRelease ==
    (/\ last.op = "send_remote_button"
     /\ last.pre.initialized
     /\ last.args[2]
     /\ Len(last.trace) >= 1
     /\ last.trace[1].fault) =>
        /\ Len(Transmits(last.trace)) = 1
        /\ Len(last.trace) = 1
        /\ last.trace[1].args = <<CECDEVICE_TV, USER_CONTROL_PRESSED, <<last.args[1]>> >>
        /\ last.result = "False"
        /\ ~last.raised

C8_Witness ==
    /\ IsPressWithHold
    /\ Len(last.trace) = 1
    /\ last.trace[1].prim = "transmit"
    /\ last.trace[1].fault
    /\ last.result = "False"

\* C9: no sender operation propagates an exception: whenever a transmit or the
\* set_active_source convenience primitive faults, the operation returns False.
C9_SenderNeverRaises ==
    (last.op \in SenderOps) =>
        /\ ~last.raised
        /\ last.result \in {"True", "False"}
        /\ (\E i \in 1..Len(last.trace) : last.trace[i].fault) => last.result = "False"

C9_Witness ==
    /\ last.op = "power_on_tv"
    /\ Len(last.trace) = 1
    /\ last.trace[1].prim = "transmit"
    /\ last.trace[1].fault
    /\ last.result = "False"
    /\ ~last.raised

----------------------------------------------------------------------------
\* Properties of the registries and of dispatch (checked under SpecDispatch)

\* C4: fault isolation: whichever handlers of the list fault, one dispatched event
\* calls every handler registered under its key once, in list order, and no fault
\* leaves the entry point; for handle_command the key is the opcode it resolved.
C4_FaultIsolation ==
    /\ (last.op = "handle_keypress") =>
           (InvokedHandlers = Lookup(callbacks, last.key) /\ ~last.raised)
    /\ (last.op = "handle_command" /\ last.key # NoKey) =>
           (InvokedHandlers = Lookup(command_callbacks, last.key) /\ ~last.raised)

C4_Witness ==
    /\ last.op = "handle_keypress"
    /\ Len(last.invoked) = 3
    /\ InvokedHandlers = <<"h1", "h2", "h1">>
    /\ ~last.invoked[1].fault
    /\ last.invoked[2].fault
    /\ ~last.invoked[3].fault

\* C5: for each of the four recognized raw-event shapes, handle_command resolves
\* the opcode the event carries and calls the handlers registered under it.
C5_ShapesDispatchAlike ==
    (last.op = "handle_command" /\ last.shape \in Shapes) =>
        InvokedHandlers = Lookup(command_callbacks, last.content.opcode)

\* C6: a raw command event of none of the recognized shapes is dropped: no handler
\* is called, nothing is raised, and initialized and both registries are unchanged.
C6_UnrecognizedDropped ==
    [][(last'.op = "handle_command" /\ last'.shape = "unknown") =>
          /\ last'.invoked = <<>>
          /\ ~last'.raised
          /\ UNCHANGED <<initialized, callbacks, command_callbacks>>]_vars

C6_Witness ==
    /\ last.op = "handle_command"
    /\ last.shape = "unknown"
    /\ last.args = <<PyInt(USER_CONTROL_PRESSED)>>
    /\ Lookup(command_callbacks, USER_CONTROL_PRESSED) # <<>>
    /\ last.invoked = <<>>

\* C15: dispatch and register/unregister exclude each other: from the start to the
\* end of a dispatch's iteration over a handler list no register or unregister takes
\* effect on that list, so the list is as it was when the iteration started and the
\* handlers called so far are its first entries.
C15_DispatchExcludesRegistration ==
    dispatching.active =>
        /\ IteratedList = dispatching.start
        /\ [i \in 1..Len(dispatching.calls) |-> dispatching.calls[i].handler]
             = SubSeq(dispatching.start, 1, dispatching.idx)

Count(s, h) == Cardinality({i \in 1..Len(s) : s[i] = h})

\* the registry a register/unregister operation works on, before and after it
RegistryBefore ==
    IF last.op \in {"add_button_callback", "remove_button_callback"}
      THEN last.before.callbacks ELSE last.before.command_callbacks

RegistryAfter ==
    IF last.op \in {"add_button_callback", "remove_button_callback"}
      THEN callbacks ELSE command_callbacks

\* C18: within one key, handlers are called in registration order: a registration
\* goes to the end of the key's list, behind every earlier registration and leaving
\* their order alone, and a dispatched event calls the list front to back, so a
\* handler registered n times is called n times, at the positions of its
\* registrations.
C18_RegistrationOrder ==
    /\ (last.op \in {"add_button_callback", "add_command_callback"}) =>
           LET k == last.args[1]
               h == last.args[2]
               old == Lookup(RegistryBefore, k)
               new == Lookup(RegistryAfter, k)
           IN  /\ Len(new) = Len(old) + 1
               /\ new[Len(new)] = h
               /\ \A i \in 1..Len(old) : new[i] = old[i]
    /\ (last.op = "handle_keypress") =>
           LET list == Lookup(callbacks, last.key)
           IN  /\ Len(last.invoked) = Len(list)
               /\ \A i \in 1..Len(list) : last.invoked[i].handler = list[i]
               /\ \A h \in Handlers : Count(InvokedHandlers, h) = Count(list, h)

C18_Witness ==
    /\ last.op = "handle_keypress"
    /\ last.key = PLAY
    /\ Lookup(callbacks, PLAY) = <<"h2", "h1", "h2">>
    /\ InvokedHandlers = <<"h2", "h1", "h2">>

\* C19: unregister(key, handler) removes exactly one occurrence of the handler, the
\* first one in the key's list, and keeps the order of all other entries; when the
\* key has no list or the handler is not in it, nothing changes; nothing is raised.
C19_UnregisterFirstOccurrence ==
    (last.op \in {"remove_button_callback", "remove_command_callback"}) =>
        LET k == last.args[1]
            h == last.args[2]
            old == Lookup(RegistryBefore, k)
        IN  /\ ~last.raised
            /\ IF k \in DOMAIN RegistryBefore /\ \E i \in 1..Len(old) : old[i] = h
                 THEN \E i \in 1..Len(old) :
                        /\ old[i] = h
                        /\ \A j \in 1..(i - 1) : old[j] # h
                        /\ RegistryAfter =
                             [RegistryBefore EXCEPT ![k] =
                                [j \in 1..(Len(old) - 1) |->
                                   IF j < i THEN old[j] ELSE old[j + 1]]]
                 ELSE RegistryAfter = RegistryBefore

C19_Witness ==
    /\ last.op = "remove_button_callback"
    /\ last.args = <<PLAY, "h1">>
    /\ Lookup(last.before.callbacks, PLAY) = <<"h1", "h2", "h1">>
    /\ Lookup(callbacks, PLAY) = <<"h2", "h1">>

\* C20: lookup is by exact key and the registries are independent: a key event with
\* button code k calls only the handlers listed under k in the button registry, a
\* command event with opcode o only those listed under o in the opcode registry,
\* and a register or unregister on one registry leaves the other as it was, also
\* when k and o are the same number.
C20_ExactKeyIndependentRegistries ==
    /\ (last.op = "handle_keypress") =>
           InvokedHandlers = Lookup(callbacks, last.args[1])
    /\ (last.op = "handle_command" /\ last.shape \in Shapes) =>
           InvokedHandlers \in {<<>>, Lookup(command_callbacks, last.content.opcode)}
    /\ (last.op = "handle_command" /\ last.shape = "unknown") => InvokedHandlers = <<>>
    /\ (last.op \in {"add_button_callback", "remove_button_callback"}) =>
           command_callbacks = last.before.command_callbacks
    /\ (last.op \in {"add_command_callback", "remove_command_callback"}) =>
           callbacks = last.before.callbacks

C20_Witness ==
    /\ PLAY = USER_CONTROL_PRESSED
    /\ last.op = "handle_keypress"
    /\ last.args[1] = PLAY
    /\ Lookup(callbacks, PLAY) = <<"h1">>
    /\ Lookup(command_callbacks, USER_CONTROL_PRESSED) = <<"h2">>
    /\ InvokedHandlers = <<"h1">>

\* the canonical fields of a command event: opcode, parameters, source, destination
CanonicalFields(c) ==
    <<PyInt(c.opcode), PyBytes(c.parameters), PyInt(c.initiator), PyInt(c.destination)>>

\* C21: when a raw command event carries no parameters (no parameters field, or
\* no fourth positional argument), the parameters handle_command resolves for it
\* are a zero-length byte sequence, never an absent value.
C21_MissingParametersAreEmpty ==
    (/\ last.op = "handle_command"
     /\ last.shape \in {"object", "positional"}
     /\ ~last.content.hasParams) =>
        resolve_opcode(Head(last.args), Tail(last.args)).params = PyBytes(<<>>)

\* C22: dispatch calls each handler with the canonical event's fields: a key
\* handler with (button_code, duration), a command handler with the opcode, the
\* parameters, the source and the destination of the event, so that raw command
\* events of different shapes and equal content give a handler the same arguments.
C22_HandlersGetCanonicalFields ==
    /\ (last.op = "handle_keypress") =>
           \A i \in 1..Len(last.invoked) :
               last.invoked[i].args = <<last.args[1], last.args[2]>>
    /\ (last.op = "handle_command" /\ last.shape \in Shapes) =>
           \A i \in 1..Len(last.invoked) :
               last.invoked[i].args = CanonicalFields(last.content)

\* C10: after a handler is registered under a key that had no handler and the same
\* handler is then unregistered under that key, an event for the key calls no
\* handler and raises nothing, in the button registry and in the opcode registry.
C10_RegisterUnregisterNoOp ==
    /\ (/\ last.op = "handle_keypress"
        /\ pending.stage = "removed" /\ pending.reg = "button"
        /\ last.key = pending.key) =>
           (last.invoked = <<>> /\ ~last.raised)
    /\ (/\ last.op = "handle_command" /\ last.shape \in Shapes
        /\ pending.stage = "removed" /\ pending.reg = "command"
        /\ last.content.opcode = pending.key) =>
           (last.invoked = <<>> /\ ~last.raised)

C10_Witness ==
    /\ last.op = "handle_command"
    /\ last.shape = "object"
    /\ pending = [stage |-> "removed", reg |-> "command",
                  key |-> USER_CONTROL_PRESSED, handler |-> "h2"]
    /\ last.content.opcode = USER_CONTROL_PRESSED
    /\ last.invoked = <<>>

----------------------------------------------------------------------------
\* Properties of a dispatch whose handlers use the registry (checked under
\* SpecReentrant)

\* the for statement has called every element its iterator will yield
LoopExhausted == dispatching.active /\ dispatching.idx >= Len(IteratedList)

CalledHandlers == [i \in 1..Len(dispatching.calls) |-> dispatching.calls[i].handler]

BodiesOf(op) == {i \in 1..Len(dispatching.calls) : dispatching.calls[i].body.op = op}

UnregisteredDuring(h) ==
    \E i \in BodiesOf("remove") : dispatching.calls[i].body.handler = h

\* C35: a dispatch invokes exactly once every handler that is registered for the
\* event's key when the dispatch starts and is not itself unregistered during the
\* dispatch, also when a handler unregisters itself or another handler of the
\* same key from inside its invocation: when the loop of a dispatch in which no
\* handler registered anything is exhausted, each handler of the starting list
\* that no handler unregistered has been called once per registration.
C35_SurvivingHandlersInvokedOnce ==
    (LoopExhausted /\ BodiesOf("add") = {}) =>
        \A h \in Range(dispatching.start) :
            ~UnregisteredDuring(h) =>
                Count(CalledHandlers, h) = Count(dispatching.start, h)

\* C36: the number of handler invocations made by one dispatch is bounded by the
\* length of the key's handler list when the dispatch started, also when handlers
\* register further handlers under the same key from inside the dispatch.
C36_InvocationsBoundedByStart ==
    dispatching.active => Len(dispatching.calls) <= Len(dispatching.start)

----------------------------------------------------------------------------
\* Properties of the transport's context running into the lifecycle (checked under
\* SpecInterleaved)

\* C33: no application handler is invoked while initialized is false: every
\* dispatch of a transport event that calls a handler starts in a state where
\* init() has set initialized and no cleanup() has cleared it, so a handler that
\* sends from inside the dispatch does not get the not-initialized failure.
C33_HandlersOnlyWhileInitialized ==
    (last.op = "handle_keypress" /\ last.invoked # <<>>) => last.pre.initialized

\* Properties of a send_remote_button() whose hold other contexts run into
\* (checked under SpecHold)

\* C34: every press that send_remote_button(code, pressed=true, hold_time>0)
\* transmits successfully is followed by a release transmit attempt from the same
\* call, whatever other contexts do during the hold, a cleanup() included: when
\* the call returns it has made two transmits, the second the release.
C34_PressAlwaysReleased ==
    (/\ IsPressWithHold
     /\ Transmits(last.trace) # <<>>
     /\ ~Transmits(last.trace)[1].fault) =>
        /\ Len(Transmits(last.trace)) = 2
        /\ Transmits(last.trace)[2].args[2] = USER_CONTROL_RELEASED

====
